---- MODULE Spec2Model ----
(***************************************************************************)
(* A model of scripts/gen_archlist.py: the keyword utilities, the         *)
(* candidate selection of get_best_deps, the gap computation of max_kws,  *)
(* the dependency propagation of gen_cpv_kws and consolidate_dupes.       *)
(*                                                                         *)
(* A keyword is <<n, arch>>: the architecture name preceded by n tildes,  *)
(* so that "amd64" is <<0, "amd64">>, "~amd64" is <<1, "amd64">> and      *)
(* '~' + "~amd64" is <<2, "amd64">>, which no list of arches contains.    *)
(* A cpv is <<cp, version>>, version a sequence of numbers ("1.0" is      *)
(* <<1, 0>>).                                                              *)
(***************************************************************************)
EXTENDS Integers, Sequences, FiniteSets, TLC

VARIABLES
    portdb,      \* the repository as read so far: cpv -> [KEYWORDS, visible, DEPEND]
    pc,          \* the position of the running function
    kws,         \* get_best_deps: the `kws` parameter
    ret,         \* get_best_deps: the candidates of the atom, newest first
    idx,         \* get_best_deps: the number of candidates the loop has handled
    best_kws,    \* get_best_deps: the local best_kws
    deps,        \* get_best_deps: the local deps
    rejected,    \* history: the candidates the STABLE block rejected
    branch,      \* history: the branch of lines 209-245 that was taken
    args,        \* main: the parsed command line
    cpv,         \* main: the seed of the input line
    kws_missing, \* main: the local kws_missing
    ALL_CPV_KWS, \* main: the local ALL_CPV_KWS
    evaluated,   \* history: belongs_release was called
    stack,       \* gen_cpv_kws: the frames of the recursion, innermost last
    depgraph,    \* gen_cpv_kws: the set `depgraph` the frames share
    calls,       \* history: the cpv of every call of gen_cpv_kws, in order
    cpv_kws_dict,  \* consolidate_dupes: the local cpv_kws_dict
    clean_cpv_kws, \* consolidate_dupes: the local clean_cpv_kws
    pos          \* consolidate_dupes: the dep_sets the running loop has handled

bestVars == <<kws, ret, idx, best_kws, deps, rejected, branch>>

mainVars == <<args, cpv, kws_missing, ALL_CPV_KWS, evaluated>>

propVars == <<stack, depgraph, calls>>

dupVars == <<cpv_kws_dict, clean_cpv_kws, pos>>

vars == <<portdb, pc, bestVars, mainVars, propVars, dupVars>>

---------------------------------------------------------------------------
(* Constants and settings, lines 38-71 *)

Arches == {"amd64", "x86", "arm"}

STABLE_ARCHES == {<<0, a>> : a \in Arches}

UNSTABLE_ARCHES == {<<1, a>> : a \in Arches} \cup {<<1, "x86-fbsd">>}

ALL_ARCHES == STABLE_ARCHES \cup UNSTABLE_ARCHES

CHECK_DEPS == FALSE

STABLE == TRUE

ARCHES == IF STABLE THEN STABLE_ARCHES ELSE UNSTABLE_ARCHES

---------------------------------------------------------------------------
(* Keyword utilities *)

\* kwd.startswith('~')
StartsWithTilde(kwd) == kwd[1] >= 1

\* '~' + kwd
Tilde(kwd) == <<kwd[1] + 1, kwd[2]>>

make_unstable(S) == {IF StartsWithTilde(kwd) THEN kwd ELSE Tilde(kwd) : kwd \in S}

\* get_kws on the KEYWORDS already read
FilterKws(KEYWORDS, arches) == {kwd \in KEYWORDS : kwd \in arches}

get_kws(c, arches) == FilterKws(portdb[c].KEYWORDS, arches)

Reverse(s) == [j \in 1..Len(s) |-> s[Len(s) + 1 - j]]

---------------------------------------------------------------------------
(* get_best_deps, lines 167-246.  best_kws is a list [cpv, kws] or one of *)
(* the strings 'none' and 'alreadythere'.                                  *)

NoCpv == <<"", <<>>>>

BestList(c, k) == [str |-> "", cpv |-> c, kws |-> k]

BestStr(s) == [str |-> s, cpv |-> NoCpv, kws |-> {}]

\* not best_kws[0]: the first character of a string is never empty
NotItem0(b) == IF b.str # "" THEN FALSE ELSE b.cpv = NoCpv

\* len(best_kws[1]): the second character of a string has length 1
LenItem1(b) == IF b.str # "" THEN 1 ELSE Cardinality(b.kws)

\* not best_kws[1]
NotItem1(b) == IF b.str # "" THEN FALSE ELSE b.kws = {}

\* Rejects, comparing the unstable labels for a common label only
RejectsUnlessDisjoint(KEYWORDS, k) ==
    /\ STABLE
    /\ LET ukws == make_unstable(k)
           cur_ukws == make_unstable(FilterKws(KEYWORDS, k \cup ukws))
       IN (cur_ukws \cap ukws) = {} /\ ukws # {}

\* lines 188-196: the STABLE block rejects candidate with keywords KEYWORDS
Rejects(KEYWORDS, k) ==
    /\ STABLE
    /\ LET ukws == make_unstable(k)
           cur_ukws == make_unstable(FilterKws(KEYWORDS, k \cup ukws))
       IN (cur_ukws \cap ukws) # ukws

\* lines 187-208: one iteration of the loop, for candidate i
BestIter(b, i, KEYWORDS, k) ==
    IF Rejects(KEYWORDS, k) THEN BestStr("none")
    ELSE LET cur_match_kws == FilterKws(KEYWORDS, k)
         IN IF cur_match_kws = k THEN BestStr("alreadythere")
            ELSE IF Cardinality(cur_match_kws) > LenItem1(b)
                 THEN BestList(i, cur_match_kws)
            ELSE IF NotItem0(b) THEN BestList(i, {})
            ELSE b

\* lines 233-242: the second pass over all candidates
RECURSIVE SecondPass(_, _, _)
SecondPass(b, r, db) ==
    IF r = <<>> THEN b
    ELSE LET i == Head(r)
             cur_kws == FilterKws(db[i].KEYWORDS, ARCHES)
             nb == IF Cardinality(cur_kws) > LenItem1(b) THEN BestList(i, cur_kws)
                   ELSE IF NotItem0(b) THEN BestList(i, {})
                   ELSE b
         IN SecondPass(nb, Tail(r), db)

\* lines 209-245: what the atom adds to deps, and by which branch
AfterLoop(b, r, db) ==
    IF b.str = "alreadythere" THEN [branch |-> "alreadythere", add |-> {}]
    ELSE IF b.str = "none" THEN [branch |-> "none", add |-> {}]
    ELSE IF NotItem0(b) THEN [branch |-> "recent", add |-> {r[1]}]
    ELSE IF NotItem1(b)
         THEN [branch |-> "second",
               add |-> {SecondPass(BestList(NoCpv, {}), r, db).cpv}]
    ELSE [branch |-> "first", add |-> {b.cpv}]

---------------------------------------------------------------------------
(* SpecBest: get_best_deps on one atom with at least one candidate.  The  *)
(* candidates are the versions MaxCands..1 of one package; the KEYWORDS   *)
(* of a candidate are read when the loop reaches it (lines 191, 197).     *)

MaxCands == 3

Dep(v) == <<"cat/dep", <<v>>>>

\* a keyworded candidate (can_stabilize_cpv, line 145)
CandKeywords == {K \in SUBSET (STABLE_ARCHES \cup {<<1, a>> : a \in Arches}) :
                    /\ K # {}
                    /\ \A a \in Arches : ~(<<0, a>> \in K /\ <<1, a>> \in K)}

\* the variables of get_best_deps, when it is not running
IdleBest ==
    /\ kws = {}
    /\ ret = <<>>
    /\ idx = 0
    /\ best_kws = BestList(NoCpv, {})
    /\ deps = {}
    /\ rejected = {}
    /\ branch = ""

IdleMain ==
    /\ args = [check_dependencies |-> FALSE, old_version |-> <<>>, new_version |-> <<>>]
    /\ cpv = NoCpv
    /\ kws_missing = [none |-> FALSE, kws |-> {}]
    /\ ALL_CPV_KWS = <<>>
    /\ evaluated = FALSE

IdleProp ==
    /\ stack = <<>>
    /\ depgraph = {}
    /\ calls = <<>>

IdleDupes ==
    /\ cpv_kws_dict = <<>>
    /\ clean_cpv_kws = <<>>
    /\ pos = 0

InitBest ==
    /\ IdleMain /\ IdleProp /\ IdleDupes
    /\ portdb = <<>>
    /\ pc = "loop"
    /\ kws \in SUBSET STABLE_ARCHES
    /\ \E n \in 1..MaxCands : ret = [j \in 1..n |-> Dep(n + 1 - j)]
    /\ idx = 0
    /\ best_kws = BestList(NoCpv, {})
    /\ deps = {}
    /\ rejected = {}
    /\ branch = ""

\* line 187: the next candidate, when the loop has not ended or broken
BestIterate ==
    /\ pc = "loop"
    /\ idx < Len(ret)
    /\ best_kws.str # "alreadythere"
    /\ \E KEYWORDS \in CandKeywords :
         LET i == ret[idx + 1] IN
         /\ portdb' = portdb @@ (i :> [KEYWORDS |-> KEYWORDS, visible |-> TRUE,
                                       DEPEND |-> {}])
         /\ best_kws' = BestIter(best_kws, i, KEYWORDS, kws)
         /\ rejected' = IF Rejects(KEYWORDS, kws) THEN rejected \cup {i} ELSE rejected
    /\ idx' = idx + 1
    /\ UNCHANGED <<pc, kws, ret, deps, branch, mainVars, propVars, dupVars>>

\* lines 209-245, after the loop
BestFinish ==
    /\ pc = "loop"
    /\ idx = Len(ret) \/ best_kws.str = "alreadythere"
    /\ LET a == AfterLoop(best_kws, ret, portdb)
       IN /\ deps' = deps \cup a.add
          /\ branch' = a.branch
    /\ pc' = "done"
    /\ UNCHANGED <<portdb, kws, ret, idx, best_kws, rejected, mainVars, propVars,
                   dupVars>>

NextBest == BestIterate \/ BestFinish

SpecBest == InitBest /\ [][NextBest]_vars

\* the candidates the loop has handled and not rejected
Survivors == {ret[j] : j \in 1..idx} \ rejected

\* the number of labels of kws that candidate i already has
Overlap(i) == Cardinality({kwd \in portdb[i].KEYWORDS : kwd \in kws})

\* i comes before j in the descending-version list
Before(i, j) == \E a, b \in 1..Len(ret) : a < b /\ ret[a] = i /\ ret[b] = j

\* C3 (as claimed): a version selected by the first pass has an overlap with
\* kws at least that of every other surviving candidate, and among equal
\* overlaps it is the one of highest version.
C3_OverlapMaximal ==
    (pc = "done" /\ branch = "first") =>
        \A s \in deps : \A i \in Survivors \ {s} :
            /\ Overlap(s) >= Overlap(i)
            /\ Overlap(s) = Overlap(i) => Before(s, i)

\* C6 (as claimed): when every candidate of the atom is rejected for lacking
\* unstable coverage, the most recent candidate, ret[0], is selected.
C6_AllRejectedSelectsMostRecent ==
    (pc = "done" /\ rejected = {ret[j] : j \in 1..Len(ret)}) => deps = {ret[1]}

\* C8 (as claimed): a candidate survives the rejection step only if its own
\* keywords contain ~k for every k of kws, and so does every version the
\* first pass selects.
C8_SurvivorsCarryUnstable ==
    /\ \A i \in Survivors : \A kwd \in kws : Tilde(kwd) \in portdb[i].KEYWORDS
    /\ branch = "first" =>
          \A s \in deps : \A kwd \in kws : Tilde(kwd) \in portdb[s].KEYWORDS

\* C8 (amended): a candidate survives the rejection step only if its own
\* keywords contain k or ~k for every k of kws, and so does every version
\* the first pass selects; a candidate that has neither k nor ~k for some k
\* of kws is rejected.
C8_SurvivorsCarryStableOrUnstable ==
    /\ \A j \in 1..idx :
          (ret[j] \notin rejected) <=>
             \A kwd \in kws : \/ kwd \in portdb[ret[j]].KEYWORDS
                              \/ Tilde(kwd) \in portdb[ret[j]].KEYWORDS
    /\ branch = "first" =>
          \A s \in deps : \A kwd \in kws : \/ kwd \in portdb[s].KEYWORDS
                                          \/ Tilde(kwd) \in portdb[s].KEYWORDS

\* C8 witness: the first pass selected a version after the loop had rejected
\* a candidate and kept one that has a stable label of kws without its ~ form
C8_Witness ==
    /\ pc = "done" /\ branch = "first" /\ rejected # {}
    /\ \E s \in deps : \E kwd \in kws :
          kwd \in portdb[s].KEYWORDS /\ Tilde(kwd) \notin portdb[s].KEYWORDS

---------------------------------------------------------------------------
(* The repository queries of match_wanted_atoms, lines 110-164.  No       *)
(* release is None or '', both false in `if release`: <<>>.               *)

IsPrefix(p, v) == Len(p) <= Len(v) /\ SubSeq(v, 1, Len(p)) = p

\* version v is at most version w (portage's comparison, on number sequences)
RECURSIVE VerLE(_, _)
VerLE(v, w) ==
    IF v = <<>> THEN TRUE
    ELSE IF w = <<>> THEN FALSE
    ELSE IF Head(v) # Head(w) THEN Head(v) < Head(w)
    ELSE VerLE(Tail(v), Tail(w))

\* line 115: cpv_getversion(cpv).startswith(release)
belongs_release(c, release) == IsPrefix(release, c[2])

\* lines 113-114: belongs_release raises when it is called under CHECK_DEPS
BelongsReleaseRaises == CHECK_DEPS

can_stabilize_cpv(db, c, release) ==
    /\ ~(release # <<>> /\ ~belongs_release(c, release))
    /\ db[c].visible
    /\ FilterKws(db[c].KEYWORDS, ALL_ARCHES) # {}

\* xmatch('match-all', '<=' + cpv): the versions of cpv's package up to cpv
XmatchUpTo(db, c) == {d \in DOMAIN db : d[1] = c[1] /\ VerLE(d[2], c[2])}

\* xmatch('match-all', cp): every version of the package
XmatchAll(db, cp) == {d \in DOMAIN db : d[1] = cp}

\* match_wanted_atoms calls belongs_release: a release is given and xmatch
\* returned a candidate
CallsBelongsRelease(matched, release) == release # <<>> /\ matched # {}

\* match_wanted_atoms: the matched versions that can be stabilized (as a set)
match_wanted_atoms(db, matched, release) ==
    {d \in matched : can_stabilize_cpv(db, d, release)}

\* the set S of cpvs of one package, by descending version
RECURSIVE Descending(_)
Descending(S) ==
    IF S = {} THEN <<>>
    ELSE LET m == CHOOSE d \in S : \A e \in S : VerLE(e[2], d[2])
         IN <<m>> \o Descending(S \ {m})

---------------------------------------------------------------------------
(* max_kws, lines 249-285.  The result None is [none |-> TRUE].           *)

\* max_kws, taking every stable keyword of the reference versions as missing
max_kws_all_missing(db, c, release) ==
    LET maximum_kws ==
            UNION {{kwd \in FilterKws(db[d].KEYWORDS, ARCHES) :
                        ~(STABLE /\ StartsWithTilde(kwd))} :
                   d \in match_wanted_atoms(db, XmatchUpTo(db, c), release)}
    IN IF maximum_kws # {} THEN [none |-> FALSE, kws |-> maximum_kws]
       ELSE [none |-> TRUE, kws |-> {}]

max_kws(db, c, release) ==
    LET current_kws == FilterKws(db[c].KEYWORDS, ALL_ARCHES)
        maximum_kws ==
            UNION {{kwd \in FilterKws(db[d].KEYWORDS, ARCHES) :
                        ~(STABLE /\ StartsWithTilde(kwd))} :
                   d \in match_wanted_atoms(db, XmatchUpTo(db, c), release)}
        missing_kws ==
            {kwd \in maximum_kws : ~(STABLE /\ Tilde(kwd) \notin current_kws)}
    IN IF maximum_kws # {} THEN [none |-> FALSE, kws |-> missing_kws]
       ELSE [none |-> TRUE, kws |-> {}]

---------------------------------------------------------------------------
(* gen_cpv_kws up to its own entry, lines 289-322 *)

\* kws_wanted, without regard to target_kws
kws_wanted_of_current(current_kws, target_kws) ==
    {kwd \in STABLE_ARCHES : Tilde(kwd) \in current_kws}

kws_wanted(current_kws, target_kws) ==
    {kwd \in target_kws : ~(STABLE /\ Tilde(kwd) \notin current_kws)}

\* lines 306-320: the local `wanted` (with STABLE, line 318 is not reached)
Wanted(db, c, kws_aim) ==
    LET wanted == kws_wanted(FilterKws(db[c].KEYWORDS, ALL_ARCHES), kws_aim)
    IN IF wanted = {} THEN FilterKws(db[c].KEYWORDS, make_unstable(kws_aim))
       ELSE wanted

\* the empty-wanted fallback of line 320 is taken
FallbackTaken(db, c, kws_aim) ==
    kws_wanted(FilterKws(db[c].KEYWORDS, ALL_ARCHES), kws_aim) = {}

\* no label of K starts with a tilde
StableForm(K) == \A kwd \in K : ~StartsWithTilde(kwd)

\* kw[1:]
StripFirst(kwd) == <<kwd[1] - 1, kwd[2]>>

---------------------------------------------------------------------------
(* get_best_deps as a whole, over the repository db *)

\* lines 187-208 over the candidates r
RECURSIVE BestLoop(_, _, _, _)
BestLoop(b, r, db, k) ==
    IF r = <<>> \/ b.str = "alreadythere" THEN b
    ELSE BestLoop(BestIter(b, Head(r), db[Head(r)].KEYWORDS, k), Tail(r), db, k)

\* lines 177-246 for one atom (a package name, which contains '/')
\* (r and b are bound as set elements, which are values computed once)
BestOfAtom(db, atom, k, release) ==
    UNION {IF r = <<>> THEN {}
           ELSE UNION {AfterLoop(b, r, db).add :
                          b \in {BestLoop(BestList(NoCpv, {}), r, db, k)}} :
           r \in {Descending(match_wanted_atoms(db, XmatchAll(db, atom), release))}}

get_best_deps(db, c, k, release) ==
    UNION {BestOfAtom(db, atom, k, release) : atom \in db[c].DEPEND}

---------------------------------------------------------------------------
(* gen_cpv_kws, lines 300-347, as frames [cpv, kws_aim, wanted,           *)
(* cpv_kw_list, deps] of the recursion; deps holds the versions of the    *)
(* list `deps` that the loop of line 329 has not reached yet.  The order  *)
(* of list(set(...)), lines 174 and 246, is any order.                    *)

SYSTEM_PACKAGES == {}

\* lines 118-122
issystempackage(c) == \E i \in SYSTEM_PACKAGES : i = c[1]

\* lines 306-327: the frame of a call gen_cpv_kws(c, kws_aim, ...)
NewFrame(c, kws_aim) ==
    CHOOSE f \in {[cpv |-> c, kws_aim |-> kws_aim, wanted |-> wanted,
                   cpv_kw_list |-> <<<<c, wanted>>>>,
                   deps |-> IF args.check_dependencies /\ ~issystempackage(c)
                            THEN get_best_deps(portdb, c, wanted, args.new_version)
                            ELSE {}] :
                  wanted \in {Wanted(portdb, c, kws_aim)}} : TRUE

\* line 330, taking no version as seen before
InDepgraphNever(dep) == FALSE

\* line 330: dep in depgraph
InDepgraph(dep) == dep \in depgraph

\* lines 341-344: append the tuples of dep_deps that the list does not hold
RECURSIVE AppendNew(_, _)
AppendNew(cpv_kw_list, dep_deps) ==
    IF dep_deps = <<>> THEN cpv_kw_list
    ELSE AppendNew(IF \E j \in 1..Len(cpv_kw_list) : cpv_kw_list[j] = Head(dep_deps)
                   THEN cpv_kw_list
                   ELSE Append(cpv_kw_list, Head(dep_deps)),
                   Tail(dep_deps))

Top == stack[Len(stack)]

---------------------------------------------------------------------------
(* main for one input line that names a cpv, lines 481-508 *)

\* line 493; belongs_release is called by match_wanted_atoms (lines 265, 141)
MainMaxKws ==
    /\ pc = "max_kws"
    /\ LET called == CallsBelongsRelease(XmatchUpTo(portdb, cpv), args.old_version)
       IN /\ evaluated' = called
          /\ IF called /\ BelongsReleaseRaises
             THEN pc' = "raised" /\ UNCHANGED kws_missing
             ELSE /\ pc' = "decide"
                  /\ kws_missing' = max_kws(portdb, cpv, args.old_version)
    /\ UNCHANGED <<portdb, args, cpv, ALL_CPV_KWS, bestVars, propVars, dupVars>>

\* lines 494-498: no version has stable keywords
MainNoReference ==
    /\ pc = "decide"
    /\ kws_missing.none
    /\ kws_missing' =
         [none |-> FALSE,
          kws |-> {StripFirst(kw) : kw \in get_kws(cpv, make_unstable(ARCHES))}]
    /\ pc' = "gen"
    /\ UNCHANGED <<portdb, args, cpv, ALL_CPV_KWS, evaluated, bestVars, propVars,
                   dupVars>>

\* lines 500-503: the cpv has the maximum keywords
MainNothingToBeDone ==
    /\ pc = "decide"
    /\ ~kws_missing.none
    /\ kws_missing.kws = {}
    /\ pc' = "done"
    /\ UNCHANGED <<portdb, args, cpv, kws_missing, ALL_CPV_KWS, evaluated, bestVars,
                   propVars, dupVars>>

\* GenCall, with an empty depgraph
GenCallEmptyDepgraph ==
    /\ \/ pc = "gen"
       \/ pc = "decide" /\ ~kws_missing.none /\ kws_missing.kws # {}
    /\ depgraph' = {}
    /\ stack' = <<NewFrame(cpv, kws_missing.kws)>>
    /\ calls' = <<cpv>>
    /\ pc' = "run"
    /\ UNCHANGED <<portdb, mainVars, bestVars, dupVars>>

\* lines 505-507: main calls gen_cpv_kws(cpv, kws_missing, set([cpv]), ...)
GenCall ==
    /\ \/ pc = "gen"
       \/ pc = "decide" /\ ~kws_missing.none /\ kws_missing.kws # {}
    /\ depgraph' = {cpv}
    /\ stack' = <<NewFrame(cpv, kws_missing.kws)>>
    /\ calls' = <<cpv>>
    /\ pc' = "run"
    /\ UNCHANGED <<portdb, mainVars, bestVars, dupVars>>

\* lines 329-333: the next dep is in depgraph already
GenSkipDep ==
    /\ pc = "run"
    /\ \E dep \in Top.deps :
          /\ InDepgraph(dep)
          /\ stack' = [stack EXCEPT ![Len(stack)].deps = @ \ {dep}]
    /\ UNCHANGED <<portdb, pc, depgraph, calls, mainVars, bestVars, dupVars>>

\* lines 335-338: the next dep is new; gen_cpv_kws is called for it
GenRecurse ==
    /\ pc = "run"
    /\ \E dep \in Top.deps :
          /\ ~InDepgraph(dep)
          /\ depgraph' = depgraph \cup {dep}
          /\ stack' = Append([stack EXCEPT ![Len(stack)].deps = @ \ {dep}],
                             NewFrame(dep, Top.wanted))
          /\ calls' = Append(calls, dep)
    /\ UNCHANGED <<portdb, pc, mainVars, bestVars, dupVars>>

\* lines 346-347 of the callee, then lines 339-344 of its caller
GenReturn ==
    /\ pc = "run"
    /\ Len(stack) > 1
    /\ Top.deps = {}
    /\ LET returned == Reverse(Top.cpv_kw_list)
           dep_deps == Reverse(returned)
           caller == Len(stack) - 1
       IN stack' = [SubSeq(stack, 1, caller) EXCEPT
                       ![caller].cpv_kw_list = AppendNew(@, dep_deps)]
    /\ UNCHANGED <<portdb, pc, depgraph, calls, mainVars, bestVars, dupVars>>

\* lines 346-347 of the outermost call, then line 505 of main
GenReturnToMain ==
    /\ pc = "run"
    /\ Len(stack) = 1
    /\ Top.deps = {}
    /\ ALL_CPV_KWS' = Append(ALL_CPV_KWS, Reverse(Top.cpv_kw_list))
    /\ stack' = <<>>
    /\ pc' = "done"
    /\ UNCHANGED <<portdb, args, cpv, kws_missing, evaluated, depgraph, calls,
                   bestVars, dupVars>>

---------------------------------------------------------------------------
(* SpecGap: main on one input line that names a cpv of cat/pkgA, a        *)
(* package without dependencies, lines 481-508.                           *)

MaxVers == 2

VersionList == <<<<0, 9>>, <<1, 0>>, <<1, 1>>, <<2, 0>>>>

PkgA(v) == <<"cat/pkgA", v>>

GapCpvs == {PkgA(VersionList[j]) : j \in 1..MaxVers}

\* the KEYWORDS of a version: per arch the stable, the unstable or no label
GapKeywords == {K \in SUBSET (STABLE_ARCHES \cup {<<1, a>> : a \in Arches}) :
                   \A a \in Arches : ~(<<0, a>> \in K /\ <<1, a>> \in K)}

InitGap ==
    /\ IdleBest /\ IdleProp /\ IdleDupes
    /\ portdb \in [GapCpvs -> [KEYWORDS : GapKeywords, visible : BOOLEAN,
                               DEPEND : {{}}]]
    /\ pc = "max_kws"
    /\ args \in [check_dependencies : BOOLEAN, old_version : {<<>>, <<1>>},
                 new_version : {<<>>}]
    /\ cpv \in GapCpvs
    /\ kws_missing = [none |-> FALSE, kws |-> {}]
    /\ ALL_CPV_KWS = <<>>
    /\ evaluated = FALSE

NextGap ==
    MainMaxKws \/ MainNoReference \/ MainNothingToBeDone \/ GenCall \/ GenReturnToMain

SpecGap == InitGap /\ [][NextGap]_vars

\* the versions whose keywords are the reference of the seed: visible,
\* keyworded, not newer than the seed and of the old release when one is given
ReferenceVersions ==
    {d \in DOMAIN portdb :
        /\ d[1] = cpv[1] /\ VerLE(d[2], cpv[2])
        /\ portdb[d].visible
        /\ portdb[d].KEYWORDS \cap ALL_ARCHES # {}
        /\ args.old_version = <<>> \/ IsPrefix(args.old_version, d[2])}

MaximumKeywords ==
    {kwd \in STABLE_ARCHES : \E d \in ReferenceVersions : kwd \in portdb[d].KEYWORDS}

Gap == {kwd \in MaximumKeywords : Tilde(kwd) \in portdb[cpv].KEYWORDS}

ExampleRepository ==
    /\ portdb[PkgA(<<1, 0>>)].KEYWORDS = {<<0, "amd64">>, <<0, "x86">>, <<1, "arm">>}
    /\ portdb[PkgA(<<0, 9>>)].KEYWORDS = {<<0, "amd64">>, <<0, "arm">>, <<0, "x86">>}
    /\ portdb[PkgA(<<1, 0>>)].visible /\ portdb[PkgA(<<0, 9>>)].visible
    /\ cpv = PkgA(<<1, 0>>)
    /\ args.old_version = <<>>

\* C5: max_kws returns None exactly when the maximum keywords are empty, and
\* else the maximum keywords whose unstable form the seed has; main emits no
\* entry exactly when that set is empty, and else the entry (seed, gap); for
\* pkgA-1.0 {amd64, x86, ~arm} over pkgA-0.9 {amd64, arm, x86} it is {arm}.
C5_GapOutcomes ==
    /\ pc = "decide" =>
          /\ kws_missing.none <=> MaximumKeywords = {}
          /\ ~kws_missing.none => kws_missing.kws = Gap
    /\ pc = "done" =>
          /\ ALL_CPV_KWS = <<>> <=> (MaximumKeywords # {} /\ Gap = {})
          /\ (MaximumKeywords # {} /\ Gap # {}) =>
                ALL_CPV_KWS = <<<<<<cpv, Gap>>>>>>
          /\ ExampleRepository =>
                ALL_CPV_KWS = <<<<<<PkgA(<<1, 0>>), {<<0, "arm">>}>>>>>>

\* C5 witness: main has emitted the entry of the example
C5_Witness ==
    /\ pc = "done" /\ ExampleRepository
    /\ Len(ALL_CPV_KWS) = 1

\* C4 (as claimed): a run with --check-dependencies in which belongs_release
\* is evaluated on a candidate aborts; it does not go on to a result.
C4_ReleaseFilterWithCheckDepsAborts ==
    (args.check_dependencies /\ evaluated) => pc = "raised"

---------------------------------------------------------------------------
(* SpecProp: main with --check-dependencies and no release on the input   *)
(* line cat/pkgA-1.0, in a repository of cat/pkgA-1.0, its older version  *)
(* cat/pkgA-0.9, cat/pkgB-1.0 and cat/pkgC-1.0, keyworded for amd64 and   *)
(* x86; a dependency atom is a package name.                              *)

MaxAtoms == 2

PropPackages == {"cat/pkgA", "cat/pkgB", "cat/pkgC"}

Seed == <<"cat/pkgA", <<1, 0>>>>

Older == <<"cat/pkgA", <<0, 9>>>>

PropCpvs == {<<cp, <<1, 0>>>> : cp \in PropPackages} \cup {Older}

\* per arch the stable, the unstable or no label
PropKeywords == {K \in SUBSET {<<0, "amd64">>, <<1, "amd64">>, <<0, "x86">>, <<1, "x86">>} :
                    \A a \in Arches : ~(<<0, a>> \in K /\ <<1, a>> \in K)}

PropDepend == {D \in SUBSET PropPackages : Cardinality(D) <= MaxAtoms}

\* the older version is stable where it is keyworded and has no dependencies;
\* cat/pkgB-1.0 and cat/pkgC-1.0 are keyworded
InitProp ==
    /\ IdleBest /\ IdleDupes /\ IdleProp
    /\ portdb \in {db \in [PropCpvs -> [KEYWORDS : PropKeywords, visible : {TRUE},
                                        DEPEND : PropDepend]] :
                      /\ db[Older].DEPEND = {}
                      /\ StableForm(db[Older].KEYWORDS)
                      /\ \A c \in PropCpvs \ {Seed, Older} : db[c].KEYWORDS # {}}
    /\ pc = "max_kws"
    /\ args = [check_dependencies |-> TRUE, old_version |-> <<>>, new_version |-> <<>>]
    /\ cpv = Seed
    /\ kws_missing = [none |-> FALSE, kws |-> {}]
    /\ ALL_CPV_KWS = <<>>
    /\ evaluated = FALSE

NextProp ==
    \/ MainMaxKws \/ MainNoReference \/ MainNothingToBeDone
    \/ GenCall \/ GenSkipDep \/ GenRecurse \/ GenReturn \/ GenReturnToMain

\* gen_cpv_kws has returned its sequence to main
Returned == pc = "done" /\ Len(ALL_CPV_KWS) = 1

SpecProp == InitProp /\ [][NextProp]_vars

\* the versions get_best_deps selects for the atoms of entry e = (cpv, wanted)
SelectedBy(e) == get_best_deps(portdb, e[1], e[2], args.new_version)

\* the versions that the selections lead to from the versions in S
RECURSIVE SelectedFrom(_, _)
SelectedFrom(S, seq) ==
    LET next == S \cup UNION {SelectedBy(seq[j]) : j \in {i \in 1..Len(seq) : seq[i][1] \in S}}
    IN IF next = S THEN S ELSE SelectedFrom(next, seq)

\* no entry of seq selects, directly or through other entries, its own version
Acyclic(seq) ==
    \A j \in 1..Len(seq) : seq[j][1] \notin SelectedFrom(SelectedBy(seq[j]), seq)

\* C1 (as claimed): in the sequence returned to main the seed's entry is last
\* and the entry of a version selected for an atom of X comes before the
\* entry of X, whatever the graph and the order of the atoms.
C1_DepsBeforeDependents ==
    Returned =>
        LET seq == ALL_CPV_KWS[1]
        IN /\ seq[Len(seq)][1] = cpv
           /\ \A p, q \in 1..Len(seq) :
                 (p # q /\ seq[q][1] \in SelectedBy(seq[p])) => q < p

\* C1 (as claimed, for the graphs without a cycle, where such an order exists)
C1_DepsBeforeDependentsAcyclic ==
    (Returned /\ Acyclic(ALL_CPV_KWS[1])) => C1_DepsBeforeDependents

\* the number of versions that wait in the deps of the frames of st
RECURSIVE WaitingDeps(_)
WaitingDeps(st) ==
    IF st = <<>> THEN 0 ELSE Cardinality(Head(st).deps) + WaitingDeps(Tail(st))

\* a number that bounds the steps the propagation still takes: a call adds
\* a frame with at most N waiting deps and takes one version out of the
\* N versions not yet in depgraph
Rank ==
    LET N == Cardinality(DOMAIN portdb)
        lines == CASE pc = "max_kws" -> 3 [] pc = "decide" -> 2 [] pc = "gen" -> 1
                   [] OTHER -> 0
    IN (N + 2) * Cardinality(DOMAIN portdb \ depgraph) + WaitingDeps(stack) + Len(stack)
          + lines

NoRepeat(seq) == \A p, q \in 1..Len(seq) : seq[p] = seq[q] => p = q

\* C7: the propagation of a seed terminates on every graph, also with cycles:
\* until main has the result a step is always possible, every step lowers
\* Rank, a natural number, and gen_cpv_kws is entered at most once per cpv.
C7_Terminates ==
    /\ [](pc # "done" => ENABLED NextProp)
    /\ [][Rank' < Rank]_vars
    /\ []NoRepeat(calls)

\* C7 witness: the propagation has returned on a graph with a cycle through
\* all three versions
C7_Witness ==
    /\ Returned
    /\ Len(calls) = 3
    /\ \A j \in 1..3 : ALL_CPV_KWS[1][j][1] \in
                          SelectedFrom(SelectedBy(ALL_CPV_KWS[1][j]), ALL_CPV_KWS[1])

\* C9: in the sequence of a seed every cpv has at most one entry and the seed
\* exactly one; depgraph only grows, and at the return it is the set of the
\* cpvs that have an entry.
C9_VisitedSet ==
    /\ [][depgraph \subseteq depgraph']_vars
    /\ [](Returned =>
            LET seq == ALL_CPV_KWS[1]
            IN /\ NoRepeat([j \in 1..Len(seq) |-> seq[j][1]])
               /\ Cardinality({j \in 1..Len(seq) : seq[j][1] = cpv}) = 1
               /\ depgraph = {seq[j][1] : j \in 1..Len(seq)})

\* C9 witness: the propagation has returned, and a dependency of the seed
\* selects the seed with a narrower wanted set than the seed's own
C9_Witness ==
    /\ Returned
    /\ \E j \in 1..Len(ALL_CPV_KWS[1]) :
          LET e == ALL_CPV_KWS[1][j]
          IN /\ e[1] # cpv
             /\ cpv \in SelectedBy(e)
             /\ e[2] # kws_missing.kws

\* C10: the wanted set of every call of gen_cpv_kws is a subset of its target,
\* also by the fallback, which yields the empty set for a target of stable
\* labels; so every entry of the sequence holds stable labels of the seed's
\* gap set only.
C10_WantedNarrows ==
    /\ \A j \in 1..Len(stack) :
          LET f == stack[j]
          IN /\ f.wanted \subseteq f.kws_aim
             /\ (StableForm(f.kws_aim) /\ FallbackTaken(portdb, f.cpv, f.kws_aim))
                   => f.wanted = {}
             /\ \A i \in 1..Len(f.cpv_kw_list) :
                   /\ f.cpv_kw_list[i][2] \subseteq kws_missing.kws
                   /\ StableForm(f.cpv_kw_list[i][2])
    /\ Returned =>
          \A i \in 1..Len(ALL_CPV_KWS[1]) :
              /\ ALL_CPV_KWS[1][i][2] \subseteq kws_missing.kws
              /\ StableForm(ALL_CPV_KWS[1][i][2])

\* C10 witness: a returned sequence with an entry whose keywords are some,
\* not all, of the seed's gap set
C10_Witness ==
    /\ Returned
    /\ \E i \in 1..Len(ALL_CPV_KWS[1]) :
          /\ ALL_CPV_KWS[1][i][2] # {}
          /\ ALL_CPV_KWS[1][i][2] # kws_missing.kws

---------------------------------------------------------------------------
(* consolidate_dupes, lines 350-371.  cpv_kws_dict is a function on its   *)
(* keys; the parameter cpv_kws is main's ALL_CPV_KWS.                     *)

\* the dict without key
Pop(dict, key) == [k \in DOMAIN dict \ {key} |-> dict[k]]

\* UpdateAll, each tuple replacing the keywords of its cpv
RECURSIVE UpdateAllOverwrite(_, _)
UpdateAllOverwrite(dict, dep_set) ==
    IF dep_set = <<>> THEN dict
    ELSE LET c == Head(dep_set)[1]
             k == Head(dep_set)[2]
         IN UpdateAllOverwrite(IF c \in DOMAIN dict THEN [dict EXCEPT ![c] = k]
                               ELSE dict @@ (c :> k),
                               Tail(dep_set))

\* lines 359-360 for one dep_set: cpv_kws_dict[cpv].update(kws), the
\* defaultdict starting a missing cpv with the empty set
RECURSIVE UpdateAll(_, _)
UpdateAll(dict, dep_set) ==
    IF dep_set = <<>> THEN dict
    ELSE LET c == Head(dep_set)[1]
             k == Head(dep_set)[2]
         IN UpdateAll(IF c \in DOMAIN dict THEN [dict EXCEPT ![c] = @ \cup k]
                      ELSE dict @@ (c :> k),
                      Tail(dep_set))

\* lines 365-369 for one dep_set: the list of (cpv, cpv_kws_dict.pop(cpv))
\* for the tuples whose cpv is still in the dict, and the dict left
RECURSIVE CleanSet(_, _, _)
CleanSet(dict, dep_set, out) ==
    IF dep_set = <<>> THEN [dict |-> dict, list |-> out]
    ELSE LET c == Head(dep_set)[1]
         IN IF c \in DOMAIN dict
            THEN CleanSet(Pop(dict, c), Tail(dep_set), Append(out, <<c, dict[c]>>))
            ELSE CleanSet(dict, Tail(dep_set), out)

\* lines 358-360, one dep_set of the first loop
DupesUpdate ==
    /\ pc = "update"
    /\ pos < Len(ALL_CPV_KWS)
    /\ cpv_kws_dict' = UpdateAll(cpv_kws_dict, ALL_CPV_KWS[pos + 1])
    /\ pos' = pos + 1
    /\ UNCHANGED <<portdb, pc, clean_cpv_kws, mainVars, bestVars, propVars>>

\* line 363, after the first loop
DupesStartClean ==
    /\ pc = "update"
    /\ pos = Len(ALL_CPV_KWS)
    /\ clean_cpv_kws' = <<>>
    /\ pos' = 0
    /\ pc' = "clean"
    /\ UNCHANGED <<portdb, cpv_kws_dict, mainVars, bestVars, propVars>>

\* lines 364-369, one dep_set of the second loop
DupesClean ==
    /\ pc = "clean"
    /\ pos < Len(ALL_CPV_KWS)
    /\ LET r == CleanSet(cpv_kws_dict, ALL_CPV_KWS[pos + 1], <<>>)
       IN /\ clean_cpv_kws' = Append(clean_cpv_kws, r.list)
          /\ cpv_kws_dict' = r.dict
    /\ pos' = pos + 1
    /\ UNCHANGED <<portdb, pc, mainVars, bestVars, propVars>>

\* line 371
DupesReturn ==
    /\ pc = "clean"
    /\ pos = Len(ALL_CPV_KWS)
    /\ pc' = "done"
    /\ UNCHANGED <<portdb, pos, cpv_kws_dict, clean_cpv_kws, mainVars, bestVars,
                   propVars>>

---------------------------------------------------------------------------
(* SpecDupes: consolidate_dupes on the sequences of two seeds, of at most *)
(* MaxSeqLen entries each, over two versions of cat/pkgB and cat/pkgA-1.0 *)

MaxSeqLen == 2

SeedLines == {1, 2}

DupCpvs == {<<"cat/pkgB", <<1, 0>>>>, <<"cat/pkgB", <<2, 0>>>>, <<"cat/pkgA", <<1, 0>>>>}

DupEntries == DupCpvs \X {{<<0, "amd64">>}, {<<0, "x86">>}}

DupSequences == UNION {[1..n -> DupEntries] : n \in 0..MaxSeqLen}

InitDupes ==
    /\ IdleBest /\ IdleProp
    /\ portdb = <<>>
    /\ pc = "update"
    /\ args = [check_dependencies |-> FALSE, old_version |-> <<>>, new_version |-> <<>>]
    /\ cpv = NoCpv
    /\ kws_missing = [none |-> FALSE, kws |-> {}]
    /\ ALL_CPV_KWS \in [SeedLines -> DupSequences]
    /\ evaluated = FALSE
    /\ cpv_kws_dict = <<>>
    /\ clean_cpv_kws = <<>>
    /\ pos = 0

NextDupes == DupesUpdate \/ DupesStartClean \/ DupesClean \/ DupesReturn

SpecDupes == InitDupes /\ [][NextDupes]_vars

\* the places <<sequence, index>> of collection coll that hold cpv c
Places(coll, c) ==
    {pl \in (1..Len(coll)) \X (1..MaxSeqLen + 1) :
        pl[2] <= Len(coll[pl[1]]) /\ coll[pl[1]][pl[2]][1] = c}

\* place pl comes before place pm: an earlier sequence, or an earlier index
Earlier(pl, pm) == pl[1] < pm[1] \/ (pl[1] = pm[1] /\ pl[2] < pm[2])

First(S) == CHOOSE pl \in S : \A pm \in S \ {pl} : Earlier(pl, pm)

OccurringCpvs(coll) ==
    {coll[i][j][1] : <<i, j>> \in {pl \in (1..Len(coll)) \X (1..MaxSeqLen + 1) :
                                     pl[2] <= Len(coll[pl[1]])}}

\* C2: consolidate_dupes returns as many sequences as it is given; every cpv
\* of the input is in the output once, in the sequence of its first
\* occurrence and in the order of the first occurrences, with the union of
\* all keyword sets recorded for that cpv (versions of one package are apart).
C2_Consolidated ==
    pc = "done" =>
        /\ Len(clean_cpv_kws) = Len(ALL_CPV_KWS)
        /\ OccurringCpvs(clean_cpv_kws) = OccurringCpvs(ALL_CPV_KWS)
        /\ \A c \in OccurringCpvs(ALL_CPV_KWS) :
              LET in == Places(ALL_CPV_KWS, c)
                  out == Places(clean_cpv_kws, c)
              IN /\ Cardinality(out) = 1
                 /\ First(out)[1] = First(in)[1]
                 /\ clean_cpv_kws[First(out)[1]][First(out)[2]][2] =
                       UNION {ALL_CPV_KWS[pl[1]][pl[2]][2] : pl \in in}
                 /\ \A d \in OccurringCpvs(ALL_CPV_KWS) :
                       LET dout == Places(clean_cpv_kws, d)
                       IN (d # c /\ First(dout)[1] = First(out)[1])
                             => (Earlier(First(out), First(dout))
                                   <=> Earlier(First(in), First(Places(ALL_CPV_KWS, d))))

\* C2 witness: two seeds require cat/pkgB-2.0, for {amd64} and for {x86}, the
\* second one also cat/pkgB-1.0; the output has one row for cat/pkgB-2.0
C2_Witness ==
    /\ pc = "done"
    /\ ALL_CPV_KWS = << <<<<<<"cat/pkgB", <<2, 0>>>>, {<<0, "amd64">>}>>>>,
                        <<<<<<"cat/pkgB", <<2, 0>>>>, {<<0, "x86">>}>>,
                          <<<<"cat/pkgB", <<1, 0>>>>, {<<0, "x86">>}>>>> >>
    /\ clean_cpv_kws =
          << <<<<<<"cat/pkgB", <<2, 0>>>>, {<<0, "amd64">>, <<0, "x86">>}>>>>,
             <<<<<<"cat/pkgB", <<1, 0>>>>, {<<0, "x86">>}>>>> >>

====
